---- MODULE Spec2Model ----
(***************************************************************************)
(* Model of functions/py/main.py: the process_bp HTTP entry point, which   *)
(* locates a blood-pressure display in a photo, reads three fields with    *)
(* two recognisers, uploads two images and writes one readings record.     *)
(*                                                                         *)
(* An image is modelled by its shape (width, height); what the pixels make *)
(* the libraries return (the correlation map, the Laplacian variance, the  *)
(* recognised text) is drawn from small sets.  Texts are sequences of      *)
(* one-character strings.  The variance is counted in thousandths.  The    *)
(* record's timestamp is left out: no step reads it.                       *)
(***************************************************************************)
EXTENDS Integers, Sequences, FiniteSets, TLC

VARIABLES pc, frame, response, bucket, readings, issued

vars == <<pc, frame, response, bucket, readings, issued>>

\* ---------------------------------------------------------------- bounds
\* Number of invocations that may be in flight together.
NumInv == 2
\* Shape of the reference template (TEMPLATE.shape reversed).
ROI_W == 2
ROI_H == 7
\* Largest excess of the photo's width or height over the template's.
MaxMargin == 1
\* Correlation scores are 0..MaxScore.
MaxScore == 2

\* ------------------------------------------------------------- constants
\* VAR_THRESHOLD = 10.0
VAR_THRESHOLD == 10

Inv == 1..NumInv
Solo == {1}
UIDs == 1..NumInv

Min(a, b) == IF a < b THEN a ELSE b
Max(a, b) == IF a > b THEN a ELSE b

\* ---------------------------------------------------------------- images
\* cv2.imdecode gives None for bytes that are no image.
NoImage == [w |-> 0, h |-> 0]
Images == [w : 1..(ROI_W + MaxMargin), h : 1..(ROI_H + MaxMargin)]
Requests == {NoImage} \cup Images

\* ------------------------------------------------- cv2.matchTemplate
\* OpenCV swaps image and template when the image is smaller in a
\* dimension, and asserts that it is then no larger in the other one.
NeedSwap(g) == g.h < ROI_H \/ g.w < ROI_W

MatchRaises(g) == NeedSwap(g) /\ ~(g.h <= ROI_H /\ g.w <= ROI_W)

\* The placements of the result map: (bigger - smaller + 1) in each axis.
ResultLocs(g) ==
    IF NeedSwap(g)
    THEN (0..(ROI_W - g.w)) \X (0..(ROI_H - g.h))
    ELSE (0..(g.w - ROI_W)) \X (0..(g.h - ROI_H))

\* Score maps over a set of placements: two placements (or one) have one
\* score, every other placement another.
ScoreMaps(P, scores) ==
    { [pl \in P |-> IF pl \in {p, q} THEN a ELSE b] :
        p \in P, q \in P, a \in scores, b \in scores }

Scores == 0..MaxScore

\* A single score: every placement ties.
OneScore == {0}

\* cv2.minMaxLoc returns the minimum's place beside the maximum's: loc
\* taken from the wrong position of the result.
MinLocs(res) == { p \in DOMAIN res : \A q \in DOMAIN res : res[p] <= res[q] }

\* cv2.minMaxLoc: the place of the maximum (any of them on a tie).
MaxLocs(res) == { p \in DOMAIN res : \A q \in DOMAIN res : res[q] <= res[p] }

\* numpy's a[lo:hi] on an axis of length n: both ends are clipped to n.
SliceLen(n, lo, hi) == Max(0, Min(hi, n) - Min(lo, n))

\* gray[y:y+ROI_H, x:x+ROI_W]
Display(g, x, y) ==
    [w |-> SliceLen(g.w, x, x + ROI_W), h |-> SliceLen(g.h, y, y + ROI_H)]

NoRegion == [w |-> 0, h |-> 0]

\* ------------------------------------------------------- quality
\* Laplacian variances the library may report, in thousandths.
Variances == {9996, 10000, 10004}

\* The comparison written <= instead of <.
Glare_Inclusive(variance) == variance <= VAR_THRESHOLD * 1000

\* glare_detected = variance < VAR_THRESHOLD
Glare(variance) == variance < VAR_THRESHOLD * 1000

\* round(variance, 2): thousandths to the nearest hundredth.
Round2(variance) == (variance + 5) \div 10

\* ------------------------------------------------------- segmentation
\* crops = [display[i*h:(i+1)*h, :] for i in range(3)], h = rows // 3;
\* a crop is the pair of its first row and the row after its last.
\* The band height rounded up instead of down.
BandHeight_Ceil(d) == (d.h + 2) \div 3

BandHeight(d) == d.h \div 3

Crop(d, i) ==
    LET h == BandHeight(d)
    IN  [top |-> Min(i * h, d.h),
         bottom |-> Max(Min(i * h, d.h), Min((i + 1) * h, d.h)),
         w |-> d.w]

Crops(d) == [k \in 1..3 |-> Crop(d, k - 1)]

EmptyCrop(c) == c.bottom = c.top \/ c.w = 0

\* ----------------------------------------------------------------- text
\* Characters str.strip() removes from both ends.
Whitespace == {" ", "\n"}

DigitVal ==
    ("0" :> 0) @@ ("1" :> 1) @@ ("2" :> 2) @@ ("3" :> 3) @@ ("4" :> 4) @@
    ("5" :> 5) @@ ("6" :> 6) @@ ("7" :> 7) @@ ("8" :> 8) @@ ("9" :> 9)

RECURSIVE LStrip(_)
LStrip(s) ==
    IF s # <<>> /\ Head(s) \in Whitespace THEN LStrip(Tail(s)) ELSE s

RECURSIVE RStrip(_)
RStrip(s) ==
    IF s # <<>> /\ s[Len(s)] \in Whitespace
    THEN RStrip(SubSeq(s, 1, Len(s) - 1))
    ELSE s

\* str.strip()
Strip(s) == RStrip(LStrip(s))

\* ''.join(fragments)
RECURSIVE Join(_)
Join(frags) == IF frags = <<>> THEN <<>> ELSE Head(frags) \o Join(Tail(frags))

\* str.isdigit(): non-empty and every character a digit.
IsDigit(s) == s # <<>> /\ \A k \in 1..Len(s) : s[k] \in DOMAIN DigitVal

\* int(s) of a string of digits.
RECURSIVE ToInt(_)
ToInt(s) ==
    IF s = <<>> THEN 0
    ELSE 10 * ToInt(SubSeq(s, 1, Len(s) - 1)) + DigitVal[s[Len(s)]]

\* A text that is no number parsed as 0 instead of None.
ParseField_Zero(s) == IF IsDigit(s) THEN <<ToInt(s)>> ELSE <<0>>

\* int(s) if s.isdigit() else None; None is the empty tuple, a value <<n>>.
ParseField(s) == IF IsDigit(s) THEN <<ToInt(s)>> ELSE <<>>

\* What pytesseract.image_to_string may return for a crop (before strip).
TessOutputs ==
    { <<>>,
      <<"1", "2", "\n">>,
      <<" ", "7", "\n">>,
      <<"1", " ", "2", "\n">> }

\* What OCR_READER.readtext(img, detail=0) may return: a list of fragments.
EasyOutputs ==
    { <<>>,
      << <<"1", "2">> >>,
      << <<"1">>, <<"2">> >>,
      << <<"l">>, <<"2", " ">> >> }

\* ocr_tess, ocr_easy: the text computed from the library's output.
TessText(raw) == Strip(raw)

EasyText(frags) == Strip(Join(frags))

\* Only the first field compared.
Consensus_FirstField(primary, second) == primary[1] = second[1]

\* consensus = primary == second
Consensus(primary, second) == primary = second

\* ------------------------------------------------------------ storage
\* Both images stored under the photo's name.
BlobPath_Same(uid, kind) == <<"bp", uid, "orig">>

\* f"bp/{uid}_orig.jpg", f"bp/{uid}_heat.jpg"
BlobPath(uid, kind) == <<"bp", uid, kind>>

\* blob.public_url: a function of the blob's path.
PublicUrl(path) == <<"https", path>>

\* debug_img: the photo with the rectangle (dx,dy)-(dx+ROI_W,dy+ROI_H).
Annotated(g, loc) ==
    [photo |-> g, rect |-> <<loc[1], loc[2], loc[1] + ROI_W, loc[2] + ROI_H>>]

\* cv2.applyColorMap(display, COLORMAP_JET)
Heatmap(d, loc) == [colormap |-> d, at |-> loc]

\* An identifier generator that may repeat itself.
Uuid4_Any(used) == UIDs

\* uuid.uuid4().hex: an identifier no earlier call returned.
Uuid4(used) == UIDs \ used

\* The record of lines 80-96.
BuildDoc(f) ==
    [glare_detected |-> f.glare_detected,
     variance |-> Round2(f.variance),
     image_url |-> f.img_url,
     heatmap_url |-> f.heat_url,
     ocr_raw |-> [sys |-> f.primary[1], dia |-> f.primary[2], pul |-> f.primary[3]],
     consensus |-> f.consensus,
     ocr_alternates |->
        [sys |-> <<f.primary[1], f.second[1]>>,
         dia |-> <<f.primary[2], f.second[2]>>,
         pul |-> <<f.primary[3], f.second[3]>>],
     systolic |-> ParseField(f.primary[1]),
     diastolic |-> ParseField(f.primary[2]),
     pulse |-> ParseField(f.primary[3])]

\* ------------------------------------------------------------- state
\* The locals of one invocation of process_bp; e is the caught exception.
NoFrame ==
    [gray |-> NoImage, res |-> <<>>, loc |-> <<0, 0>>, display |-> NoRegion,
     variance |-> 0, glare_detected |-> FALSE, crops |-> <<>>,
     primary |-> <<>>, second |-> <<>>, consensus |-> FALSE, uid |-> 0,
     img_url |-> <<>>, heat_url |-> <<>>, doc |-> <<>>, e |-> "none"]

NoResponse == [status |-> 0]

Init ==
    /\ pc = [i \in Inv |-> "decode"]
    /\ frame = [i \in Inv |-> NoFrame]
    /\ response = [i \in Inv |-> NoResponse]
    /\ bucket = <<>>
    /\ readings = <<>>
    /\ issued = {}

\* except Exception as e: return ({"error": str(e)}, 500)
Raise(i, step) ==
    /\ pc' = [pc EXCEPT ![i] = "done"]
    /\ frame' = [frame EXCEPT ![i].e = step]
    /\ response' = [response EXCEPT ![i] = [status |-> 500, body |-> [error |-> step]]]
    /\ UNCHANGED <<bucket, readings, issued>>

\* A step that changes only the invocation's locals.
Local(i, next, f) ==
    /\ pc' = [pc EXCEPT ![i] = next]
    /\ frame' = [frame EXCEPT ![i] = f]
    /\ UNCHANGED <<response, bucket, readings, issued>>

\* Lines 51-55: get_json, b64decode, imdecode, cvtColor.
Decode(i, requests) ==
    /\ pc[i] = "decode"
    /\ \E r \in requests :
         \/ /\ r = NoImage
            /\ Raise(i, "decode")
         \/ /\ r # NoImage
            /\ Local(i, "match", [frame[i] EXCEPT !.gray = r])

\* Line 36: res = cv2.matchTemplate(gray, TEMPLATE, TM_CCOEFF_NORMED)
Match(i, scores) ==
    /\ pc[i] = "match"
    /\ \/ /\ MatchRaises(frame[i].gray)
          /\ Raise(i, "matchTemplate")
       \/ /\ ~MatchRaises(frame[i].gray)
          /\ \E m \in ScoreMaps(ResultLocs(frame[i].gray), scores) :
               Local(i, "minmax", [frame[i] EXCEPT !.res = m])

\* Lines 37-39 and 57: the maximum's place, the slice, and the return.
Locate(i) ==
    /\ pc[i] = "minmax"
    /\ \E p \in MaxLocs(frame[i].res) :
         Local(i, "lap",
               [frame[i] EXCEPT !.res = <<>>, !.loc = p,
                                !.display = Display(frame[i].gray, p[1], p[2])])

\* Lines 58-59: cv2.Laplacian rejects an empty array.
Quality(i, variances) ==
    /\ pc[i] = "lap"
    /\ \/ /\ frame[i].display.w = 0 \/ frame[i].display.h = 0
          /\ Raise(i, "Laplacian")
       \/ /\ frame[i].display.w > 0 /\ frame[i].display.h > 0
          /\ \E v \in variances :
               Local(i, "segment",
                     [frame[i] EXCEPT !.variance = v, !.glare_detected = Glare(v)])

\* Lines 62-63.
Segment(i) ==
    /\ pc[i] = "segment"
    /\ Local(i, "tess", [frame[i] EXCEPT !.crops = Crops(frame[i].display)])

\* Line 65, one call of ocr_tess; an empty crop makes the call raise.
OcrTess(i, outputs) ==
    /\ pc[i] = "tess"
    /\ LET k == Len(frame[i].primary) + 1
       IN  \/ Raise(i, "ocr_tess")
           \/ /\ ~EmptyCrop(frame[i].crops[k])
              /\ \E raw \in outputs :
                   Local(i, IF k = 3 THEN "easy" ELSE "tess",
                         [frame[i] EXCEPT !.primary = Append(@, TessText(raw))])

\* Line 66, one call of ocr_easy.
OcrEasy(i, outputs) ==
    /\ pc[i] = "easy"
    /\ LET k == Len(frame[i].second) + 1
       IN  \/ Raise(i, "ocr_easy")
           \/ /\ ~EmptyCrop(frame[i].crops[k])
              /\ \E raw \in outputs :
                   Local(i, IF k = 3 THEN "compare" ELSE "easy",
                         [frame[i] EXCEPT !.second = Append(@, EasyText(raw))])

\* Lines 67-71: consensus and the fresh identifier.
Compare(i) ==
    /\ pc[i] = "compare"
    /\ \E u \in Uuid4(issued) :
         /\ pc' = [pc EXCEPT ![i] = "upload_orig"]
         /\ frame' = [frame EXCEPT
                        ![i].consensus = Consensus(frame[i].primary, frame[i].second),
                        ![i].uid = u]
         /\ issued' = issued \cup {u}
         /\ UNCHANGED <<response, bucket, readings>>

\* Lines 74-76: upload_blob of the annotated photo.
UploadOrig(i) ==
    /\ pc[i] = "upload_orig"
    /\ LET path == BlobPath(frame[i].uid, "orig")
       IN  \/ Raise(i, "upload_orig")
           \/ /\ bucket' = (path :> Annotated(frame[i].gray, frame[i].loc)) @@ bucket
              /\ pc' = [pc EXCEPT ![i] = "upload_heat"]
              /\ frame' = [frame EXCEPT ![i].img_url = PublicUrl(path)]
              /\ UNCHANGED <<response, readings, issued>>

\* Lines 77-78: upload_blob of the false-colour display.
UploadHeat(i) ==
    /\ pc[i] = "upload_heat"
    /\ LET path == BlobPath(frame[i].uid, "heat")
       IN  \/ Raise(i, "upload_heat")
           \/ /\ bucket' = (path :> Heatmap(frame[i].display, frame[i].loc)) @@ bucket
              /\ pc' = [pc EXCEPT ![i] = "write"]
              /\ frame' = [frame EXCEPT ![i].heat_url = PublicUrl(path)]
              /\ UNCHANGED <<response, readings, issued>>

\* Lines 80-97: the record, and db.collection("readings").document(uid).set(doc).
Write(i) ==
    /\ pc[i] = "write"
    /\ LET doc == BuildDoc(frame[i])
       IN  \/ Raise(i, "set")
           \/ /\ readings' = (frame[i].uid :> doc) @@ readings
              /\ pc' = [pc EXCEPT ![i] = "return"]
              /\ frame' = [frame EXCEPT ![i].doc = doc]
              /\ UNCHANGED <<response, bucket, issued>>

\* Line 98.
Return(i) ==
    /\ pc[i] = "return"
    /\ pc' = [pc EXCEPT ![i] = "done"]
    /\ response' = [response EXCEPT ![i] = [status |-> 200, body |-> frame[i].doc]]
    /\ UNCHANGED <<frame, bucket, readings, issued>>

\* One step of invocation i, its inputs drawn from the given sets.
Step(i, requests, scores, variances, tess, easy) ==
    \/ Decode(i, requests)
    \/ Match(i, scores)
    \/ Locate(i)
    \/ Quality(i, variances)
    \/ Segment(i)
    \/ OcrTess(i, tess)
    \/ OcrEasy(i, easy)
    \/ Compare(i)
    \/ UploadOrig(i)
    \/ UploadHeat(i)
    \/ Write(i)
    \/ Return(i)

\* A few photos, one for each way the locating steps can end: no image, a
\* photo matchTemplate rejects, a one-row photo, and two photos that fit.
FewRequests ==
    { NoImage,
      [w |-> ROI_W + 1, h |-> 1],
      [w |-> ROI_W, h |-> 1],
      [w |-> ROI_W, h |-> ROI_H],
      [w |-> ROI_W + 1, h |-> ROI_H] }

FewVariances == {9996, 10004}

FewTess == { <<"1", "2", "\n">>, <<" ", "7", "\n">> }

FewEasy == { << <<"1", "2">> >>, << <<"l">>, <<"2", " ">> >> }

\* The inputs of interleaved invocations: no image or a photo of the
\* template's shape, two variances, one text from each recogniser.
TwoRequests == { NoImage, [w |-> ROI_W, h |-> ROI_H] }

OneTess == { <<"1", "2", "\n">> }

OneEasy == { << <<"l">>, <<"2", " ">> >> }

\* One invocation; every photo, score map and variance, a few texts.
Next == \E i \in Solo : Step(i, Requests, Scores, Variances, FewTess, FewEasy)

Spec == Init /\ [][Next]_vars

\* One invocation; a few photos, every text of both recognisers.
NextText == \E i \in Solo : Step(i, FewRequests, OneScore, FewVariances, TessOutputs, EasyOutputs)

SpecText == Init /\ [][NextText]_vars

\* NumInv invocations interleaved step by step.
NextConc == \E i \in Inv : Step(i, TwoRequests, OneScore, FewVariances, OneTess, OneEasy)

SpecConc == Init /\ [][NextConc]_vars

\* ---------------------------------------------------------------- claims
Fields == {"sys", "dia", "pul"}

Succeeded(i) == response[i].status = 200

Failed(i) == response[i].status = 500

SmallerThanTemplate(g) == g.w < ROI_W \/ g.h < ROI_H

Stored(uid) ==
    \/ <<"bp", uid, "orig">> \in DOMAIN bucket
    \/ <<"bp", uid, "heat">> \in DOMAIN bucket
    \/ uid \in DOMAIN readings

\* C1: an invocation (on a photo that fits the template) in which a
\* recognition call raised still ends with the success response and a
\* written record.
C1_RecognitionFailureDegrades ==
    \A i \in Inv :
        (/\ pc[i] = "done"
         /\ ~SmallerThanTemplate(frame[i].gray)
         /\ frame[i].e \in {"ocr_tess", "ocr_easy"}) =>
            /\ Succeeded(i)
            /\ frame[i].uid \in DOMAIN readings

\* C2: an invocation (on a photo that fits the template) that ended with the
\* error response has left nothing in storage: no annotated photo, no
\* heatmap, no readings record.
C2_ErrorLeavesNothing ==
    \A i \in Inv :
        (Failed(i) /\ ~SmallerThanTemplate(frame[i].gray)) => ~Stored(frame[i].uid)

\* C3: for a photo smaller than the template in width or height, no
\* recognition call returns, nothing is uploaded or written, and the
\* invocation does not end with the success response.
C3_TooSmallIsFatal ==
    \A i \in Inv :
        (pc[i] # "decode" /\ SmallerThanTemplate(frame[i].gray)) =>
            /\ frame[i].primary = <<>>
            /\ frame[i].second = <<>>
            /\ ~Stored(frame[i].uid)
            /\ ~Succeeded(i)

SameText(a, b) == Len(a) = Len(b) /\ \A k \in 1..Len(a) : a[k] = b[k]

AllAgree(doc) ==
    \A f \in Fields : SameText(doc.ocr_alternates[f][1], doc.ocr_alternates[f][2])

\* C4: in every Reading (written record or success response), consensus is
\* true iff in each of the three fields the two texts of ocr_alternates are
\* the same character for character.
C4_ConsensusIffAllAgree ==
    /\ \A u \in DOMAIN readings : readings[u].consensus <=> AllAgree(readings[u])
    /\ \A i \in Inv : Succeeded(i) =>
            (response[i].body.consensus <=> AllAgree(response[i].body))

\* Consensus with a field in which both texts are empty.
C4_Witness ==
    \E i \in Inv :
        /\ Succeeded(i)
        /\ response[i].body.consensus
        /\ response[i].body.ocr_alternates["dia"] = << <<>>, <<>> >>
        /\ response[i].body.ocr_alternates["sys"] = << <<"1", "2">>, <<"1", "2">> >>

Pow10(n) == IF n = 0 THEN 1 ELSE IF n = 1 THEN 10 ELSE IF n = 2 THEN 100 ELSE 1000

Digits == {"0", "1", "2", "3", "4", "5", "6", "7", "8", "9"}

DigitOf(c) == CHOOSE n \in 0..9 : <<"0", "1", "2", "3", "4", "5", "6", "7", "8", "9">>[n + 1] = c

RECURSIVE SumFrom(_, _)
SumFrom(s, k) ==
    IF k > Len(s) THEN 0
    ELSE DigitOf(s[k]) * Pow10(Len(s) - k) + SumFrom(s, k + 1)

\* The parsed value the claim gives a primary text.
Expected(text) ==
    IF Len(text) > 0 /\ \A k \in 1..Len(text) : text[k] \in Digits
    THEN <<SumFrom(text, 1)>>
    ELSE <<>>

ParsedFromPrimary(doc) ==
    /\ doc.systolic = Expected(doc.ocr_alternates["sys"][1])
    /\ doc.diastolic = Expected(doc.ocr_alternates["dia"][1])
    /\ doc.pulse = Expected(doc.ocr_alternates["pul"][1])

\* C5: in every Reading, systolic, diastolic and pulse are the integer value
\* of the field's primary text when that text is non-empty and all digits,
\* and None otherwise, whatever the secondary text is.
C5_ParsedFromPrimaryOnly ==
    /\ \A u \in DOMAIN readings : ParsedFromPrimary(readings[u])
    /\ \A i \in Inv : Succeeded(i) => ParsedFromPrimary(response[i].body)

\* Primary "12" beside secondary "l2": the value is 12, consensus is false;
\* a primary text with an inner blank has no value.
C5_Witness ==
    \E i \in Inv :
        /\ Succeeded(i)
        /\ response[i].body.ocr_alternates["sys"] = << <<"1", "2">>, <<"l", "2">> >>
        /\ response[i].body.systolic = <<12>>
        /\ ~response[i].body.consensus
        /\ response[i].body.ocr_raw["dia"] = <<"1", " ", "2">>
        /\ response[i].body.diastolic = <<>>
        /\ response[i].body.pulse = <<7>>

Segmented(i) == frame[i].crops # <<>>

\* C6: the display of height H is cut in exactly three bands, band k (from 0)
\* being rows [k*(H div 3), (k+1)*(H div 3)) at full width; the bands are
\* disjoint, the last H mod 3 rows are in none, and the texts read from the
\* bands go top to bottom to sys, dia, pul of the Reading.
C6_ThreeEqualBands ==
    \A i \in Inv : Segmented(i) =>
        LET H == frame[i].display.h
            c == frame[i].crops
        IN  /\ DOMAIN c = 1..3
            /\ \A k \in 1..3 :
                 /\ c[k].top = (k - 1) * (H \div 3)
                 /\ c[k].bottom = k * (H \div 3)
                 /\ c[k].bottom - c[k].top = H \div 3
                 /\ c[k].w = frame[i].display.w
            /\ \A k \in 1..2 : c[k].bottom <= c[k + 1].top
            /\ H - c[3].bottom = H % 3
            /\ Succeeded(i) =>
                 /\ response[i].body.ocr_raw =
                      [sys |-> frame[i].primary[1], dia |-> frame[i].primary[2],
                       pul |-> frame[i].primary[3]]
                 /\ \A k \in 1..3 :
                      response[i].body.ocr_alternates[<<"sys", "dia", "pul">>[k]] =
                        <<frame[i].primary[k], frame[i].second[k]>>
                 /\ readings[frame[i].uid] = response[i].body

\* A full-height display (bands of more than one row, rows left over) whose
\* three fields were read differently.
C6_Witness ==
    \E i \in Inv :
        /\ Succeeded(i)
        /\ frame[i].display.h = ROI_H
        /\ ROI_H \div 3 > 1
        /\ ROI_H % 3 > 0
        /\ response[i].body.ocr_raw["sys"] = <<"1", "2">>
        /\ response[i].body.ocr_raw["dia"] = <<"7">>
        /\ response[i].body.ocr_alternates["pul"] = << <<"1", "2">>, <<"l", "2">> >>

\* C7: for a photo at least as large as the template, find_display returns a
\* region of the template's shape at an offset inside the photo, the offset
\* being a place of the highest score; and it returns for every score map.
C7_Step ==
    \A i \in Inv :
        (pc[i] = "minmax" /\ pc'[i] # "minmax") =>
            /\ pc'[i] = "lap"
            /\ ~SmallerThanTemplate(frame[i].gray) =>
                 LET g == frame[i].gray
                     x == frame'[i].loc[1]
                     y == frame'[i].loc[2]
                 IN  /\ frame'[i].display = [w |-> ROI_W, h |-> ROI_H]
                     /\ 0 <= x /\ 0 <= y
                     /\ x + ROI_W <= g.w
                     /\ y + ROI_H <= g.h
                     /\ <<x, y>> \in DOMAIN frame[i].res
                     /\ \A q \in DOMAIN frame[i].res :
                          frame[i].res[q] <= frame[i].res[<<x, y>>]

C7_BestPlacementInBounds == [][C7_Step]_vars

\* A display found at the far corner of a photo larger than the template.
C7_Witness ==
    \E i \in Inv :
        /\ pc[i] = "lap"
        /\ frame[i].gray = [w |-> ROI_W + 1, h |-> ROI_H + 1]
        /\ frame[i].loc = <<1, 1>>
        /\ frame[i].display = [w |-> ROI_W, h |-> ROI_H]

Assessed(i) ==
    \/ pc[i] \in {"segment", "tess", "easy", "compare", "upload_orig",
                  "upload_heat", "write", "return"}
    \/ pc[i] = "done" /\ frame[i].e \notin {"decode", "matchTemplate", "Laplacian"}

C8_State ==
    \A i \in Inv :
        /\ Assessed(i) =>
             (frame[i].glare_detected <=> frame[i].variance < VAR_THRESHOLD * 1000)
        /\ Succeeded(i) =>
             /\ response[i].body.glare_detected <=>
                  frame[i].variance < VAR_THRESHOLD * 1000
             /\ readings[frame[i].uid].glare_detected = response[i].body.glare_detected

\* The step after each step, whatever glare_detected is.
After(step) ==
    CASE step = "lap" -> {"segment"}
      [] step = "segment" -> {"tess"}
      [] step = "tess" -> {"tess", "easy", "done"}
      [] step = "easy" -> {"easy", "compare", "done"}
      [] step = "compare" -> {"upload_orig"}
      [] step = "upload_orig" -> {"upload_heat", "done"}
      [] step = "upload_heat" -> {"write", "done"}
      [] step = "write" -> {"return", "done"}
      [] step = "return" -> {"done"}
      [] OTHER -> {}

C8_Step ==
    \A i \in Inv :
        /\ (pc[i] = "lap" /\ frame[i].display.w > 0 /\ frame[i].display.h > 0
              /\ pc'[i] # pc[i]) => pc'[i] = "segment"
        /\ (Assessed(i) /\ (pc'[i] # pc[i] \/ frame'[i] # frame[i])) =>
              /\ pc'[i] \in After(pc[i])
              /\ frame'[i].glare_detected = frame[i].glare_detected

\* C8: glare_detected is true iff the variance is strictly below 10.0, in
\* the invocation and in its Reading, and the steps that follow the quality
\* step are the same for either value.
C8_GlareIsStrictThreshold == [] C8_State /\ [][C8_Step]_vars

\* A variance of exactly 10.0: no glare, and the invocation succeeds.
C8_Witness ==
    \E i \in Inv :
        /\ Succeeded(i)
        /\ frame[i].variance = VAR_THRESHOLD * 1000
        /\ ~response[i].body.glare_detected

\* C9: every readings record carries the URLs of two blobs that exist under
\* the record's own identifier; the photo is uploaded before the heatmap, the
\* heatmap before the record is written, and the success response comes only
\* after the record is written and carries that record.
C9_RecordAfterBothUploads ==
    /\ \A u \in DOMAIN readings :
         /\ <<"bp", u, "orig">> \in DOMAIN bucket
         /\ <<"bp", u, "heat">> \in DOMAIN bucket
         /\ readings[u].image_url = PublicUrl(<<"bp", u, "orig">>)
         /\ readings[u].heatmap_url = PublicUrl(<<"bp", u, "heat">>)
    /\ \A i \in Inv :
         /\ <<"bp", frame[i].uid, "heat">> \in DOMAIN bucket =>
              <<"bp", frame[i].uid, "orig">> \in DOMAIN bucket
         /\ pc[i] \in {"upload_orig", "upload_heat", "write"} =>
              frame[i].uid \notin DOMAIN readings
         /\ Succeeded(i) =>
              /\ frame[i].uid \in DOMAIN readings
              /\ readings[frame[i].uid] = response[i].body
              /\ response[i].body.image_url # <<>>
              /\ response[i].body.heatmap_url # <<>>

\* A success response whose record and two blobs are in storage.
C9_Witness ==
    \E i \in Inv :
        /\ Succeeded(i)
        /\ frame[i].uid \in DOMAIN readings
        /\ DOMAIN bucket = {<<"bp", frame[i].uid, "orig">>, <<"bp", frame[i].uid, "heat">>}

HasRecord(i) == pc[i] = "return" \/ Succeeded(i)

\* C10: interleaved invocations have different identifiers, and each one's
\* blobs, record and response are those computed from its own photo and
\* texts, whatever the other invocations did in between.
C10_InvocationsIsolated ==
    /\ \A i \in Inv : \A j \in Inv \ {i} :
         (frame[i].uid # 0 /\ frame[j].uid # 0) => frame[i].uid # frame[j].uid
    /\ \A i \in Inv :
         /\ frame[i].img_url # <<>> =>
              bucket[BlobPath(frame[i].uid, "orig")] =
                Annotated(frame[i].gray, frame[i].loc)
         /\ frame[i].heat_url # <<>> =>
              bucket[BlobPath(frame[i].uid, "heat")] =
                Heatmap(frame[i].display, frame[i].loc)
         /\ HasRecord(i) => readings[frame[i].uid] = BuildDoc(frame[i])
         /\ Succeeded(i) => response[i].body = BuildDoc(frame[i])

\* Two invocations that both succeeded, with different readings.
C10_Witness ==
    \E i \in Inv : \E j \in Inv \ {i} :
        /\ Succeeded(i) /\ Succeeded(j)
        /\ response[i].body.glare_detected
        /\ ~response[j].body.glare_detected
        /\ Cardinality(DOMAIN readings) >= 2

====
